---- MODULE Spec2Model ----
(***************************************************************************)
(* ActualVim, view.py: the bridge between a host editing surface (a        *)
(* sublime.View) and the embedded modal engine (neo.vim).                  *)
(*                                                                         *)
(* Strings are sequences of code points, so that ord/chr, split and join   *)
(* are computed rather than assumed.  A region is a pair <<a, b>> of       *)
(* offsets, a selection a sequence of regions, a row/column position a     *)
(* pair <<row, col>>.  Python's None is NoBuf (0) for a buffer handle and  *)
(* the empty tuple for an optional value (Some(x) is the one-tuple).       *)
(***************************************************************************)
EXTENDS Integers, Sequences, FiniteSets, TLC

\* ------------------------------------------------------------------ bounds

\* Longest document (in characters) the engine lets a key press build.
MaxLen == 1
\* Deferred selection writes that may be queued at once.
MaxDeferred == 2
\* The count of selection pushes stops here.
MaxPushes == 2
\* Operations and host events in one run.
MaxSteps == 5
\* the longest document the pure functions are applied to
MaxText == 5
\* Input widgets the host opens in one run.
MaxPanels == 3

\* --------------------------------------------------------- code points

NL == 10
PLUS == 43
CtrlLow == 63
CtrlHigh == 96
CtrlBase == 64
CharRange == 128

c_ctrl == <<99, 116, 114, 108>>

K_backspace == <<98, 97, 99, 107, 115, 112, 97, 99, 101>>
K_enter == <<101, 110, 116, 101, 114>>
K_escape == <<101, 115, 99, 97, 112, 101>>
K_space == <<115, 112, 97, 99, 101>>
K_tab == <<116, 97, 98>>
K_up == <<117, 112>>
K_down == <<100, 111, 119, 110>>
K_right == <<114, 105, 103, 104, 116>>
K_left == <<108, 101, 102, 116>>

L_ESC == <<27>>
L_i == <<105>>
L_v == <<118>>
L_V == <<86>>
L_x == <<120>>
L_NL == <<NL>>
L_CTRL_V == <<22>>

\* The value keymap yields where the Python raises (ord of a string whose
\* length is not 1).
TypeError == <<-1>>

Min(a, b) == IF a < b THEN a ELSE b
Max(a, b) == IF a > b THEN a ELSE b

Some(x) == <<x>>
Nothing == <<>>

\* ------------------------------------------------------------ str methods

\* s.split(sep), sep one character: the pieces between the separators.
RECURSIVE split(_, _)
split(s, sep) ==
    IF \A i \in DOMAIN s : s[i] # sep
    THEN <<s>>
    ELSE LET i == CHOOSE k \in DOMAIN s :
                      s[k] = sep /\ \A j \in 1..(k - 1) : s[j] # sep
         IN  <<SubSeq(s, 1, i - 1)>> \o split(SubSeq(s, i + 1, Len(s)), sep)

\* sep.join(ls)
RECURSIVE join(_, _)
join(sep, ls) ==
    IF Len(ls) = 0 THEN <<>>
    ELSE IF Len(ls) = 1 THEN ls[1]
    ELSE ls[1] \o <<sep>> \o join(sep, Tail(ls))

\* s.rsplit(sep, 1) of a string that contains sep: <<before, after>> the
\* last separator.
rsplit1(s, sep) ==
    LET i == CHOOSE k \in DOMAIN s :
                 s[k] = sep /\ \A j \in (k + 1)..Len(s) : s[j] # sep
    IN  <<SubSeq(s, 1, i - 1), SubSeq(s, i + 1, Len(s))>>

\* ------------------------------------------------------------------ keymap

KEYMAP(key) ==
    CASE key = K_backspace -> <<8>>
      [] key = K_enter     -> <<NL>>
      [] key = K_escape    -> <<27>>
      [] key = K_space     -> <<32>>
      [] key = K_tab       -> <<9>>
      [] key = K_up        -> <<27, 91, 65>>
      [] key = K_down      -> <<27, 91, 66>>
      [] key = K_right     -> <<27, 91, 67>>
      [] key = K_left      -> <<27, 91, 68>>
      [] OTHER             -> key

\* Mutant of keymap: the code of a ctrl chord is not reduced modulo 128.
keymap_unwrapped(key) ==
    IF (\E i \in DOMAIN key : key[i] = PLUS) /\ key # <<PLUS>>
    THEN IF split(rsplit1(key, PLUS)[1], PLUS) = <<c_ctrl>>
         THEN IF Len(rsplit1(key, PLUS)[2]) # 1
              THEN TypeError
              ELSE IF rsplit1(key, PLUS)[2][1] >= CtrlLow
                      /\ rsplit1(key, PLUS)[2][1] < CtrlHigh
                   THEN <<rsplit1(key, PLUS)[2][1] - CtrlBase>>
                   ELSE KEYMAP(rsplit1(key, PLUS)[2])
         ELSE KEYMAP(rsplit1(key, PLUS)[2])
    ELSE KEYMAP(key)

keymap(key) ==
    IF (\E i \in DOMAIN key : key[i] = PLUS) /\ key # <<PLUS>>
    THEN LET parts == rsplit1(key, PLUS)
             mods  == split(parts[1], PLUS)
             base  == parts[2]
         IN  IF mods = <<c_ctrl>>
             THEN IF Len(base) # 1
                  THEN TypeError
                  ELSE IF base[1] >= CtrlLow /\ base[1] < CtrlHigh
                       THEN <<(base[1] - CtrlBase) % CharRange>>
                       ELSE KEYMAP(base)
             ELSE KEYMAP(base)
    ELSE KEYMAP(key)

\* ------------------------------------------------- host surface geometry

\* view.size()
size(text) == Len(text)

\* The offset at which row r starts, or the size past the last row.
RowStart(text, r) ==
    LET ls == split(text, NL)
        F[k \in 0..Len(ls)] == IF k = 0 THEN 0 ELSE F[k - 1] + Len(ls[k]) + 1
    IN  IF r >= Len(ls) THEN size(text) ELSE F[r]

\* view.rowcol(p)
rowcol(text, p) ==
    LET q   == Min(Max(p, 0), size(text))
        row == Cardinality({i \in 1..q : text[i] = NL})
    IN  <<row, q - RowStart(text, row)>>

\* view.text_point(row, col): the row's start plus the column, within the
\* document.
text_point(text, row, col) ==
    Min(RowStart(text, row) + col, size(text))

\* view.line(p): the region of the line that holds p.
line(text, p) ==
    LET rc == rowcol(text, p)
        ls == split(text, NL)
        st == RowStart(text, rc[1])
    IN  <<st, st + Len(ls[rc[1] + 1])>>

\* ------------------------------------------------------------ engine modes

M_normal == "n"
M_insert == "i"
M_char == "v"
M_line == "V"
\* the mode the engine reports as the one character 0x16
M_block == "^V"

INSERT_MODES == <<"i", "R">>
VISUAL_MODES == <<"v", "V", "^V">>

InSeq(x, q) == \E i \in DOMAIN q : q[i] = x

\* The engine keeps a position inside the focused buffer: on a character of
\* its row, or in insert mode possibly just after the last one.
ClampPos(mode, ls, p) ==
    LET row == Min(p[1], Len(ls) - 1)
        n   == Len(ls[row + 1])
    IN  <<row, Min(p[2], IF mode = M_insert THEN n ELSE Max(n - 1, 0))>>

\* ------------------------------------------------------- ViewMeta.visual

\* Mutant of BlockRows: the right edge is not clipped to the row's end.
RECURSIVE BlockRows_wide(_, _, _, _, _)
BlockRows_wide(text, i, bot, left, right) ==
    IF i > bot THEN <<>>
    ELSE IF left <= rowcol(text, line(text, text_point(text, i, 0))[2])[2]
    THEN <<<<text_point(text, i, left), text_point(text, i, right)>>>>
         \o BlockRows_wide(text, i + 1, bot, left, right)
    ELSE BlockRows_wide(text, i + 1, bot, left, right)

\* The rows top..bot of a block selection, each clipped to its own line.
RECURSIVE BlockRows(_, _, _, _, _)
BlockRows(text, i, bot, left, right) ==
    IF i > bot THEN <<>>
    ELSE LET ln   == line(text, text_point(text, i, 0))
             end  == rowcol(text, ln[2])[2]
             rest == BlockRows(text, i + 1, bot, left, right)
         IN  IF left <= end
             THEN <<<<text_point(text, i, left),
                      text_point(text, i, Min(right, end))>>>> \o rest
             ELSE rest

\* Mutant of visual: in the mode v the cursor end is extended whatever the
\* direction.
visual_forward(text, mode, ra, rb) ==
    LET a == text_point(text, ra[1], ra[2])
        b == text_point(text, rb[1], rb[2])
    IN  IF mode = M_line
        THEN IF a > b
             THEN <<<<line(text, a)[2], line(text, b)[1]>>>>
             ELSE <<<<line(text, a)[1], line(text, b)[2]>>>>
        ELSE IF mode = M_char
        THEN <<<<a, b + 1>>>>
        ELSE IF mode = M_block
        THEN BlockRows(text, Min(ra[1], rb[1]), Max(ra[1], rb[1]),
                       Min(ra[2], rb[2]), Max(ra[2], rb[2]) + 1)
        ELSE <<<<a, b>>>>

\* Mutant of visual: in the mode V the range runs from the anchor's line
\* start to the cursor's line end whatever the direction.
visual_downward(text, mode, ra, rb) ==
    LET a == text_point(text, ra[1], ra[2])
        b == text_point(text, rb[1], rb[2])
    IN  IF mode = M_line
        THEN <<<<line(text, a)[1], line(text, b)[2]>>>>
        ELSE IF mode = M_char
        THEN IF a > b THEN <<<<a + 1, b>>>> ELSE <<<<a, b + 1>>>>
        ELSE IF mode = M_block
        THEN BlockRows(text, Min(ra[1], rb[1]), Max(ra[1], rb[1]),
                       Min(ra[2], rb[2]), Max(ra[2], rb[2]) + 1)
        ELSE <<<<a, b>>>>

visual(text, mode, ra, rb) ==
    LET sr == ra[1]
        sc == ra[2]
        er == rb[1]
        ec == rb[2]
        a  == text_point(text, sr, sc)
        b  == text_point(text, er, ec)
    IN  IF mode = M_line
        THEN IF a > b
             THEN <<<<line(text, a)[2], line(text, b)[1]>>>>
             ELSE <<<<line(text, a)[1], line(text, b)[2]>>>>
        ELSE IF mode = M_char
        THEN IF a > b THEN <<<<a + 1, b>>>> ELSE <<<<a, b + 1>>>>
        ELSE IF mode = M_block
        THEN BlockRows(text, Min(sr, er), Max(sr, er),
                       Min(sc, ec), Max(sc, ec) + 1)
        ELSE <<<<a, b>>>>

\* ------------------------------------------------------------- the state

\* Host surfaces (sublime.View objects).  Surface 3 is opened after surface
\* 1 was destroyed and is given the id of surface 1 again.
Views == {1, 2, 3}
id(view) == IF view = 3 THEN 1 ELSE view
Ids == {id(v) : v \in Views}
Handles == {1, 2}
NoBuf == 0

VARIABLES
    views,      \* host: per surface its life, text, selection, caret setting
    registry,   \* _views: surface id -> the instance's __dict__
    vim,        \* neo.vim: buffers, focused buffer, mode, anchor and cursor
    deferred,   \* closures queued by Edit.defer, oldest first
    pushes,     \* per id: selections pushed to the engine since the host
                \* selection last changed by something other than select()
    created,    \* per id: engine buffers created on behalf of its bridge
    last,       \* the last operation: what it was called on, what it did, and
                \* the registry (reg0), the engine's focus (cur0) and the
                \* surface's text (text0) before it
    steps,      \* operations and host events so far
    panel       \* ActualPanel: per bridge its panel attribute, and the
                \* host's input widgets

vars == <<views, registry, vim, deferred, pushes, created, last, steps, panel>>

\* The state an operation works on, threaded through the calls it makes.
\* calls: the engine and host calls made so far (their names); err: an exception is
\* propagating; ret: the value the last call returned; txn: the callbacks
\* attached to the open Edit; writes: runs of select() so far.
Start == [host |-> views, reg |-> registry, vim |-> vim, deferred |-> deferred,
          txn |-> <<>>, calls |-> {}, err |-> FALSE, ret |-> Nothing,
          writes |-> 0, pushes |-> pushes, created |-> created,
          constructed |-> 0]

BufOf(m) == IF "buf" \in DOMAIN m THEN m["buf"] ELSE NoBuf

\* The calls that act on whatever buffer the engine is focused on.
Focused == {"press", "select", "sel"}

\* Note a call made on behalf of the bridge under key k, and whether it
\* reached the engine while another buffer than the bridge's was focused.
Log(s, c, k) ==
    [s EXCEPT !.calls = @ \cup {c} \cup
                  IF c \in Focused /\ s.vim.cur # BufOf(s.reg[k])
                  THEN {"unfocused"} ELSE {}]

Raise(s) == [s EXCEPT !.err = TRUE]

\* ------------------------------------------------------ neo.vim (engine)

Lines(s, h) == IF h \in Handles THEN s.vim.bufs[h].lines ELSE <<<<>>>>


buf_new(s, k) ==
    LET h == CHOOSE x \in Handles :
                 s.vim.bufs[x].st = "free"
                 /\ \A y \in Handles : y < x => s.vim.bufs[y].st # "free"
        t == Log(s, "buf_new", k)
    IN  [t EXCEPT !.vim.bufs[h] = [st |-> "open", lines |-> <<<<>>>>],
                  !.created[k] = @ + 1,
                  !.ret = Some(h)]

\* A call that names a buffer handle: it is noted, together with whether
\* the handle had been released before.
OnHandle(s, c, k, h) ==
    IF s.vim.bufs[h].st = "closed"
    THEN Log(Log(s, c, k), "released", k)
    ELSE Log(s, c, k)

buf_set(s, k, h, ls) ==
    IF s.vim.bufs[h].st # "open" THEN Raise(OnHandle(s, "buf_set", k, h))
    ELSE [Log(s, "buf_set", k) EXCEPT !.vim.bufs[h].lines = ls]

buf_activate(s, k, h) ==
    IF s.vim.bufs[h].st # "open" THEN Raise(OnHandle(s, "buf_activate", k, h))
    ELSE [Log(s, "buf_activate", k) EXCEPT
            !.vim.cur = h,
            !.vim.sel = <<ClampPos(s.vim.mode, Lines(s, h), s.vim.sel[1]),
                          ClampPos(s.vim.mode, Lines(s, h), s.vim.sel[2])>>]

buf_close(s, k, h) ==
    IF s.vim.bufs[h].st # "open" THEN Raise(OnHandle(s, "buf_close", k, h))
    ELSE [Log(s, "buf_close", k) EXCEPT
            !.vim.bufs[h].st = "closed",
            !.vim.cur = IF @ = h THEN NoBuf ELSE @]

\* vim.select(b): move the cursor, leaving any visual mode.
select1(s, k, b) ==
    LET mode == IF InSeq(s.vim.mode, VISUAL_MODES) THEN M_normal ELSE s.vim.mode
        p    == ClampPos(mode, Lines(s, s.vim.cur), b)
    IN  [Log(s, "select", k) EXCEPT
            !.vim.mode = mode,
            !.vim.sel = <<p, p>>,
            !.pushes[k] = Min(@ + 1, MaxPushes)]

\* vim.select(a, b): a character-wise visual selection from a to b.
select2(s, k, a, b) ==
    LET ls == Lines(s, s.vim.cur)
    IN  [Log(s, "select", k) EXCEPT
            !.vim.mode = M_char,
            !.vim.sel = <<ClampPos(M_char, ls, a), ClampPos(M_char, ls, b)>>,
            !.pushes[k] = Min(@ + 1, MaxPushes)]

\* vim.press(literal) on the focused buffer.  The engine's command grammar
\* is its own; this is the part of it the bridge is driven through: escape,
\* the mode keys i, v, V and ctrl-V, x (delete in normal mode, typed in
\* insert mode) and enter typed in insert mode.
vim_press(s, k, lit) ==
    LET ls   == Lines(s, s.vim.cur)
        c    == ClampPos(s.vim.mode, ls, s.vim.sel[2])
        a    == ClampPos(s.vim.mode, ls, s.vim.sel[1])
        row  == c[1]
        col  == c[2]
        ln   == ls[row + 1]
        mode == s.vim.mode
        room == Len(join(NL, ls)) < MaxLen
        t    == Log(s, "press", k)
        Put(h, new) == [t EXCEPT !.vim.bufs[h].lines = new]
        typed == [i \in 1..Len(ls) |->
                    IF i = row + 1
                    THEN SubSeq(ln, 1, col) \o lit \o SubSeq(ln, col + 1, Len(ln))
                    ELSE ls[i]]
        broken == [i \in 1..(Len(ls) + 1) |->
                    IF i <= row THEN ls[i]
                    ELSE IF i = row + 1 THEN SubSeq(ln, 1, col)
                    ELSE IF i = row + 2 THEN SubSeq(ln, col + 1, Len(ln))
                    ELSE ls[i - 1]]
        cut == [ls EXCEPT ![row + 1] =
                    SubSeq(ln, 1, col) \o SubSeq(ln, col + 2, Len(ln))]
    IN  IF s.vim.cur = NoBuf THEN t
        ELSE IF lit = L_ESC
        THEN [t EXCEPT !.vim.mode = M_normal,
                       !.vim.sel = <<ClampPos(M_normal, ls, c), ClampPos(M_normal, ls, c)>>]
        ELSE IF mode = M_normal
        THEN CASE lit = L_i      -> [t EXCEPT !.vim.mode = M_insert]
               [] lit = L_v      -> [t EXCEPT !.vim.mode = M_char, !.vim.sel = <<c, c>>]
               [] lit = L_V      -> [t EXCEPT !.vim.mode = M_line, !.vim.sel = <<c, c>>]
               [] lit = L_CTRL_V -> [t EXCEPT !.vim.mode = M_block, !.vim.sel = <<c, c>>]
               [] lit = L_x /\ col < Len(ln) ->
                    [Put(s.vim.cur, cut) EXCEPT
                        !.vim.sel = <<ClampPos(M_normal, cut, c), ClampPos(M_normal, cut, c)>>]
               [] OTHER -> t
        ELSE IF mode = M_insert
        THEN CASE lit = L_x /\ room ->
                    [Put(s.vim.cur, typed) EXCEPT
                        !.vim.sel = <<<<row, col + 1>>, <<row, col + 1>>>>]
               [] lit = L_NL /\ room ->
                    [Put(s.vim.cur, broken) EXCEPT
                        !.vim.sel = <<<<row + 1, 0>>, <<row + 1, 0>>>>]
               [] OTHER -> t
        ELSE CASE lit = L_v      ->
                    [t EXCEPT !.vim.mode = IF mode = M_char THEN M_normal ELSE M_char]
               [] lit = L_V      ->
                    [t EXCEPT !.vim.mode = IF mode = M_line THEN M_normal ELSE M_line]
               [] lit = L_CTRL_V ->
                    [t EXCEPT !.vim.mode = IF mode = M_block THEN M_normal ELSE M_block]
               [] OTHER -> t

\* -------------------------------------------------------------- the host

\* Selection.add_all on a cleared selection: the regions, kept inside the
\* document.
ClampSel(text, sel) ==
    [i \in 1..Len(sel) |-> <<Min(sel[i][1], size(text)), Min(sel[i][2], size(text))>>]

\* Edit.replace(everything, text) as the Edit commits: the text is replaced
\* and the host keeps its selection inside the new text.
Edit_replace(s, k, text) ==
    LET v   == s.reg[k]["view"]
        sel == ClampSel(text, s.host[v].sel)
    IN  [Log(s, "replace", k) EXCEPT
            !.host[v].text = text,
            !.host[v].sel = sel,
            !.pushes[k] = IF sel = s.host[v].sel THEN @ ELSE 0]

\* Edit.defer(view, f): f runs after the current handler has returned.
Edit_defer(s, f) == [s EXCEPT !.deferred = Append(@, f)]

\* edit.callback(f): f runs as the Edit completes.
Edit_callback(s, f) == [s EXCEPT !.txn = Append(@, f)]

\* ---------------------------------------------------------------- ViewMeta

\* copy_sel(view): the host selection as a list of (a, b) pairs.
copy_sel(sel) == [i \in 1..Len(sel) |-> <<sel[i][1], sel[i][2]>>]

\* dict.update: the keys of e are set in d.
DictUpdate(d, e) ==
    [f \in DOMAIN d \cup DOMAIN e |-> IF f \in DOMAIN e THEN e[f] ELSE d[f]]

\* cls.__new__(cls).__dict__: an instance made without __init__ has no
\* attributes of its own.
BlankDict == [f \in {} |-> NoBuf]

ViewMeta_init(view) == [view |-> view, last_sel |-> Nothing]

\* ActualVim.__init__: on a surface tagged actual_proxy only
\* ViewMeta.__init__ has run; on any other the settings are set (the caret
\* starts wide) and the instance has no buffer yet.
ActualVim_init(s, view) ==
    IF s.host[view].proxy
    THEN [s EXCEPT !.reg = [x \in DOMAIN s.reg \cup {id(view)} |->
                              IF x = id(view) THEN ViewMeta_init(view)
                              ELSE s.reg[x]],
                   !.constructed = @ + 1]
    ELSE [s EXCEPT !.host[view].caret = TRUE,
                   !.reg = [x \in DOMAIN s.reg \cup {id(view)} |->
                              IF x = id(view)
                              THEN DictUpdate(ViewMeta_init(view), [buf |-> NoBuf])
                              ELSE s.reg[x]],
                   !.constructed = @ + 1]

\* Mutant of get: the entry under the id is returned without comparing its
\* surface to the one asked for.
get_unchecked(s, view, create, exact, fail) ==
    LET vid == id(view)
        has == vid \in DOMAIN s.reg
    IN  IF ~has /\ create
        THEN IF fail
             THEN [s EXCEPT !.ret = Nothing]
             ELSE [ActualVim_init(s, view) EXCEPT !.ret = Some(vid)]
        ELSE [s EXCEPT !.ret = IF has THEN Some(vid) ELSE Nothing]

\* Mutant of get: the instance is registered before its constructor has
\* finished, so a failed construction leaves an entry behind.
get_partial(s, view, create, exact, fail) ==
    LET vid == id(view)
        has == vid \in DOMAIN s.reg
    IN  IF ~has /\ create
        THEN IF fail
             THEN [s EXCEPT !.ret = Nothing,
                            !.reg = [x \in DOMAIN s.reg \cup {vid} |->
                                       IF x = vid THEN ViewMeta_init(view)
                                       ELSE s.reg[x]]]
             ELSE [ActualVim_init(s, view) EXCEPT !.ret = Some(vid)]
        ELSE IF has /\ exact /\ s.reg[vid]["view"] # view
        THEN [s EXCEPT !.ret = Nothing]
        ELSE [s EXCEPT !.ret = IF has THEN Some(vid) ELSE Nothing]

\* ViewMeta.get; fail: the constructor raises.  ret is the instance (named
\* by its key) or Nothing for None.
get(s, view, create, exact, fail) ==
    LET vid == id(view)
        has == vid \in DOMAIN s.reg
    IN  IF ~has /\ create
        THEN IF fail
             THEN [s EXCEPT !.ret = Nothing]
             ELSE [ActualVim_init(s, view) EXCEPT !.ret = Some(vid)]
        ELSE IF has /\ exact /\ s.reg[vid]["view"] # view
        THEN [s EXCEPT !.ret = Nothing]
        ELSE [s EXCEPT !.ret = IF has THEN Some(vid) ELSE Nothing]

\* ViewMeta.sel_changed; ret is <<changed>>.
sel_changed(s, k) ==
    LET new_sel == copy_sel(s.host[s.reg[k]["view"]].sel)
    IN  [s EXCEPT !.ret = Some(Some(new_sel) # s.reg[k]["last_sel"]),
                  !.reg[k]["last_sel"] = Some(new_sel)]

\* ------------------------------------------------------------- ActualVim

\* Mutant of reload_classes: every entry is constructed anew for its
\* surface instead of being given the old instance's attributes.
reload_reinit(s) ==
    [s EXCEPT !.reg = [x \in DOMAIN s.reg |->
                         DictUpdate(ViewMeta_init(s.reg[x]["view"]), [buf |-> NoBuf])],
              !.deferred = [i \in 1..Len(s.deferred) |->
                              [s.deferred[i] EXCEPT !.orphan = TRUE]]]

\* reload_classes: every entry becomes a blank instance given the old
\* instance's attributes, then the blank instance's own.  The closures
\* queued before hold the instances that were replaced.
reload_classes(s) ==
    [s EXCEPT !.reg = [x \in DOMAIN s.reg |->
                         DictUpdate(BlankDict,
                                    DictUpdate(DictUpdate(BlankDict, s.reg[x]),
                                               BlankDict))],
              !.deferred = [i \in 1..Len(s.deferred) |->
                              [s.deferred[i] EXCEPT !.orphan = TRUE]]]

update_caret(s, k) ==
    LET wide == ~InSeq(s.vim.mode, INSERT_MODES \o VISUAL_MODES)
    IN  [Log(s, "caret", k) EXCEPT !.host[s.reg[k]["view"]].caret = wide]

\* The closure select() of sel_from_vim: f.self is the instance it was made
\* by, which the registry no longer holds once f.orphan.
select(s, f) ==
    LET v == f.view
        t == [s EXCEPT !.host[v].sel = ClampSel(s.host[v].text, f.new_sel),
                       !.writes = @ + 1]
    IN  IF f.orphan THEN t ELSE sel_changed(t, f.self)

\* Mutant of sel_from_vim_queue: without an Edit the selection is written
\* at once.
sel_from_vim_now(s, f, edit) ==
    IF edit THEN Edit_callback(s, f) ELSE select(s, f)

\* The end of sel_from_vim: the closure f is handed to the Edit, or to
\* Edit.defer when there is none.
sel_from_vim_queue(s, f, edit) ==
    IF edit THEN Edit_callback(s, f) ELSE Edit_defer(s, f)

sel_from_vim(s, k, edit) ==
    IF s.err THEN s
    ELSE sel_from_vim_queue(
             Log(s, "sel", k),
             [self |-> k, view |-> s.reg[k]["view"], orphan |-> FALSE,
              new_sel |-> visual(s.host[s.reg[k]["view"]].text, s.vim.mode,
                                 s.vim.sel[1], s.vim.sel[2])],
             edit)

\* The steps of a first activation, each on the state the one before left:
\* self.buf = the handle buf_new returned; self.buf[:] = the host text
\* split into lines; after sel_to_vim, the focus.
activate_new(s, k) == [s EXCEPT !.reg[k]["buf"] = s.ret[1]]

activate_seed(s, k) ==
    buf_set(s, k, s.reg[k]["buf"],
            split(s.host[s.reg[k]["view"]].text, NL))

activate_focus(s, k) ==
    IF s.err THEN s ELSE buf_activate(s, k, s.reg[k]["buf"])

RECURSIVE activate(_, _), sel_to_vim(_, _)

\* Mutant of activate: a bridge that has a buffer is given a new one.
activate_recreate(s, k) ==
    IF s.err THEN s
    ELSE IF "buf" \notin DOMAIN s.reg[k] THEN Raise(s)
    ELSE IF s.reg[k]["buf"] = NoBuf
    THEN activate_focus(
             sel_to_vim(activate_seed(activate_new(buf_new(s, k), k), k), k), k)
    ELSE activate_focus(activate_seed(activate_new(buf_new(s, k), k), k), k)

activate(s, k) ==
    IF s.err THEN s
    ELSE IF "buf" \notin DOMAIN s.reg[k] THEN Raise(s)
    ELSE IF s.reg[k]["buf"] = NoBuf
    THEN activate_focus(
             sel_to_vim(activate_seed(activate_new(buf_new(s, k), k), k), k), k)
    ELSE buf_activate(s, k, s.reg[k]["buf"])

\* sel_to_vim once sel_changed has returned in s.ret: nothing when the
\* selection is the one last seen, else the push of sel()[0], sel_from_vim
\* and update_caret.
sel_to_vim_push(s, k) ==
    LET v   == s.reg[k]["view"]
        sel == s.host[v].sel[1]
    IN  IF ~s.ret[1] THEN s
        ELSE IF Len(s.host[v].sel) = 0 THEN Raise(s)
        ELSE update_caret(
                 sel_from_vim(
                     IF sel[2] = sel[1]
                     THEN select1(s, k, rowcol(s.host[v].text, sel[2]))
                     ELSE select2(s, k, rowcol(s.host[v].text, sel[1]),
                                  rowcol(s.host[v].text, sel[2])),
                     k, FALSE),
                 k)

\* sel_to_vim once activate has returned.
sel_to_vim_synced(s, k) ==
    IF s.err THEN s ELSE sel_to_vim_push(sel_changed(s, k), k)

sel_to_vim(s, k) == sel_to_vim_synced(activate(s, k), k)

\* Mutant of press_replace: the host text is left as it is.
press_keep(s, k, text) == s

\* The comparison in press: the host text is replaced inside an Edit when it
\* is not the engine's.
press_replace(s, k, text) ==
    IF s.host[s.reg[k]["view"]].text # text
    THEN Edit_replace(s, k, text)
    ELSE s

\* press once the engine has taken the key: the buffer is read, the text
\* and the selection are brought to the host, the caret is set.
press_sync(s, k) ==
    update_caret(
        sel_from_vim(
            press_replace(Log(s, "lines", k), k,
                          join(NL, Lines(s, s.reg[k]["buf"]))),
            k, FALSE),
        k)

\* press once activate has returned; lit is keymap(key).
press_key(s, k, lit) ==
    IF s.err THEN s
    ELSE IF s.reg[k]["buf"] = NoBuf THEN s
    ELSE IF lit = TypeError THEN Raise(s)
    ELSE press_sync(vim_press(s, k, lit), k)

\* Mutant of press: the key is sent without activate.
press_blind(s, k, key) == press_key(s, k, keymap(key))

press(s, k, key) == press_key(activate(s, k), k, keymap(key))

close(s, k) ==
    IF "buf" \notin DOMAIN s.reg[k] THEN Raise(s)
    ELSE IF s.reg[k]["buf"] # NoBuf THEN buf_close(s, k, s.reg[k]["buf"])
    ELSE s

\* ------------------------------------------------------- initial state

\* No ActualPanel has a panel and the host shows no input widget.
NoPanels == [ref |-> [k \in Ids |-> 0], widgets |-> <<>>]

NoView == [st |-> "new", text |-> <<>>, sel |-> <<<<0, 0>>>>, caret |-> FALSE,
           proxy |-> FALSE]

\* The texts a surface may hold when it is opened: surface 1 any text of x
\* and newline up to MaxLen, the others the empty text.
Alphabet == {120, NL}
Texts == UNION {[1..n -> Alphabet] : n \in 0..MaxLen}

Chord(mods, base) == mods \o <<PLUS>> \o base

\* The keys pressed.  ctrl+V is the chord for block mode; ctrl+enter is a
\* chord whose base key is a name.
Keys == {K_escape, L_i, L_v, Chord(c_ctrl, L_V), L_x, K_enter,
         Chord(c_ctrl, K_enter)}
\* Surface 1 is the one edited; on the others only the mode changes.
KeysOf(v) == IF v = 1 THEN Keys ELSE {K_escape, L_i}

\* The bridge's code is loaded into a host that has surfaces 1 and 2 open;
\* no bridge and no engine buffer exists yet.
Init ==
    /\ \E t \in Texts :
          views = [v \in Views |->
                     IF id(v) = v
                     THEN [NoView EXCEPT !.st = "live",
                                         !.text = IF v = 1 THEN t ELSE <<>>]
                     ELSE NoView]
    /\ registry = [x \in {} |-> BlankDict]
    /\ vim = [bufs |-> [h \in Handles |-> [st |-> "free", lines |-> <<<<>>>>]],
              cur |-> NoBuf, mode |-> M_normal, sel |-> <<<<0, 0>>, <<0, 0>>>>]
    /\ deferred = <<>>
    /\ pushes = [k \in Ids |-> 0]
    /\ created = [k \in Ids |-> 0]
    /\ steps = 0
    /\ panel = NoPanels
    /\ last = [op |-> "init", v |-> 0, arg |-> <<>>, err |-> FALSE,
               calls |-> {}, ret |-> Nothing, writes |-> 0, constructed |-> 0,
               reg0 |-> registry, cur0 |-> NoBuf, text0 |-> <<>>]

\* ------------------------------------------------------------- actions

Commit(s, op, v, arg) ==
    /\ steps < MaxSteps
    /\ steps' = steps + 1
    /\ Len(s.deferred) <= MaxDeferred
    /\ views' = s.host
    /\ registry' = s.reg
    /\ vim' = s.vim
    /\ deferred' = s.deferred
    /\ pushes' = s.pushes
    /\ created' = s.created
    /\ UNCHANGED panel
    /\ last' = [op |-> op, v |-> v, arg |-> arg, err |-> s.err,
                calls |-> s.calls, ret |-> s.ret, writes |-> s.writes,
                constructed |-> s.constructed,
                reg0 |-> registry, cur0 |-> vim.cur,
                text0 |-> IF v \in Views THEN views[v].text ELSE <<>>]

Live(v) == views[v].st = "live"

\* The registry holds the bridge of this very surface.
Bridged(v) ==
    /\ Live(v)
    /\ id(v) \in DOMAIN registry
    /\ registry[id(v)]["view"] = v

\* The host opens a surface; an id is free again once its surface is gone.
HostOpen(v) ==
    /\ views[v].st = "new"
    /\ \A w \in Views : Live(w) => id(w) # id(v)
    /\ Commit([Start EXCEPT !.host[v] = [NoView EXCEPT !.st = "live"]],
              "open", v, <<>>)

\* The user changes the selection of a surface.
HostSelect(v, r) ==
    /\ Live(v)
    /\ r[1] <= size(views[v].text) /\ r[2] <= size(views[v].text)
    /\ views[v].sel # <<r>>
    /\ Commit([Start EXCEPT !.host[v].sel = <<r>>, !.pushes[id(v)] = 0],
              "select", v, <<>>)

Get(v, create, exact, fail) ==
    /\ Live(v)
    /\ Commit(get(Start, v, create, exact, fail), "get", v, <<create, exact, fail>>)

\* A host event on a surface reaches its bridge through the registry:
\* ActualVim.get(view) with the defaults create=True, exact=True, then the
\* method when get returned a bridge.
Via(v) == get(Start, v, TRUE, TRUE, FALSE)

Activate(v) ==
    /\ Live(v)
    /\ Via(v).ret # Nothing
    /\ Commit(activate(Via(v), id(v)), "activate", v, <<>>)

SelToVim(v) ==
    /\ Live(v)
    /\ Via(v).ret # Nothing
    /\ Commit(sel_to_vim(Via(v), id(v)), "sel_to_vim", v, <<>>)

Press(v, key) ==
    /\ Live(v)
    /\ Via(v).ret # Nothing
    /\ Commit(press(Via(v), id(v), key), "press", v, <<>>)

\* The callbacks attached to an Edit run as it completes.
RECURSIVE RunAll(_, _)
RunAll(s, fs) == IF fs = <<>> THEN s ELSE RunAll(select(s, Head(fs)), Tail(fs))

\* The Edit completes: its callbacks run, then the handler has returned.
SelFromVimCommit(s, v) ==
    Commit(RunAll([s EXCEPT !.txn = <<>>], s.txn), "sel_from_vim", v,
           <<Len(s.txn)>>)

\* A caller inside an Edit of the surface: with Edit(view) as edit:
\* sel_from_vim(edit).
SelFromVimEdit(v) ==
    /\ Bridged(v)
    /\ BufOf(registry[id(v)]) # NoBuf
    /\ vim.cur = BufOf(registry[id(v)])
    /\ SelFromVimCommit(sel_from_vim(Start, id(v), TRUE), v)

\* The oldest deferred closure runs; the surface it writes to may be gone.
RunDeferred ==
    /\ deferred # <<>>
    /\ LET f == Head(deferred)
           s == [Start EXCEPT !.deferred = Tail(@)]
       IN  Commit(IF Live(f.view) THEN select(s, f) ELSE s,
                  "deferred", f.view, <<f.orphan>>)

\* The surface closes: its bridge, if get(view, create=False) returns one,
\* is closed, and the host destroys the surface.
Close(v) ==
    /\ Live(v)
    /\ LET g == get(Start, v, FALSE, TRUE, FALSE)
           s == IF g.ret # Nothing THEN close(g, id(v)) ELSE g
       IN  Commit([s EXCEPT !.host[v] = [NoView EXCEPT !.st = "dead"]],
                  "close", v, <<>>)

\* The module is loaded again: ActualVim.reload_classes().
Reload ==
    /\ DOMAIN registry # {}
    /\ Commit(reload_classes(Start), "reload", 0, <<>>)

Regions == (0..MaxLen) \X (0..MaxLen)

Next ==
    \/ \E v \in Views : HostOpen(v)
    \/ \E v \in Views, r \in Regions : HostSelect(v, r)
    \/ \E v \in Views, c \in BOOLEAN, e \in BOOLEAN, f \in BOOLEAN : Get(v, c, e, f)
    \/ \E v \in Views : Activate(v)
    \/ \E v \in Views : SelToVim(v)
    \/ \E v \in Views : \E key \in KeysOf(v) : Press(v, key)
    \/ \E v \in Views : SelFromVimEdit(v)
    \/ RunDeferred
    \/ \E v \in Views : Close(v)
    \/ Reload

Spec == Init /\ [][Next]_vars

\* ================================================================ claims

Wide == ~InSeq(vim.mode, INSERT_MODES \o VISUAL_MODES)

\* The bridge the last operation was called on, while the registry holds it.
LastBridged ==
    /\ last.v \in Views
    /\ views[last.v].st = "live"
    /\ id(last.v) \in DOMAIN registry
    /\ registry[id(last.v)]["view"] = last.v

\* C1: immediately after sel_to_vim, press or a selection write queued by
\* sel_from_vim returns, the bridge's last_sel is the host surface's current
\* selection.
C1_LastSelCurrent ==
    (/\ last.op \in {"sel_to_vim", "press", "deferred", "sel_from_vim"}
     /\ ~last.err
     /\ LastBridged)
    => registry[id(last.v)]["last_sel"] = Some(copy_sel(views[last.v].sel))

\* C2: sel_to_vim pushes nothing to the engine when the host selection is
\* the one in last_sel, and after one host selection change the chain of
\* push, deferred write and notification pushes at most once.
C2_NoFeedback ==
    /\ (/\ last.op = "sel_to_vim"
        /\ ~last.err
        /\ id(last.v) \in DOMAIN last.reg0
        /\ last.reg0[id(last.v)]["last_sel"] = Some(copy_sel(views[last.v].sel)))
       => "select" \notin last.calls
    /\ \A k \in Ids : pushes[k] <= 1

Handlers == {"activate", "sel_to_vim", "press"}

\* C3: sel_from_vim never writes the host selection inside the handler that
\* called it: without an Edit the write is queued to run after the handler,
\* with an Edit it is attached to the Edit and runs as the Edit completes.
C3_WriteDeferred ==
    /\ (last.op \in Handlers /\ ~last.err)
       => /\ last.writes = 0
          /\ "sel" \in last.calls
             => /\ deferred # <<>>
                /\ deferred[Len(deferred)].view = last.v
                /\ ~deferred[Len(deferred)].orphan
    /\ last.op = "sel_from_vim" => last.arg = <<1>> /\ last.writes = 1

C3_Witness ==
    /\ last.op = "press"
    /\ ~last.err
    /\ "sel" \in last.calls
    /\ deferred # <<>>

\* C4: after press returns, the host text is the engine buffer's lines
\* joined by newline, and the text was replaced exactly when it differed
\* from the engine's after the key.
C4_PressSyncsText ==
    (last.op = "press" /\ ~last.err)
    => LET v == last.v
           k == id(v)
       IN  /\ views[v].text = join(NL, vim.bufs[registry[k]["buf"]].lines)
           /\ ("replace" \in last.calls) <=> (last.text0 # views[v].text)

C4_Witness ==
    /\ last.op = "press"
    /\ ~last.err
    /\ "replace" \in last.calls
    /\ views[last.v].text # <<>>

\* C5: activate on a bridge without a buffer creates one engine buffer,
\* seeds it with the host text split into lines, pushes the host selection
\* and leaves the engine focused on it; any later activate creates nothing
\* and only focuses; a bridge's buffer handle never changes and a bridge
\* creates at most one buffer.
C5_SingleBuffer ==
    /\ \A k \in Ids :
          created[k] = IF k \in DOMAIN registry /\ BufOf(registry[k]) # NoBuf
                       THEN 1 ELSE 0
    /\ \A k \in DOMAIN last.reg0 :
          BufOf(last.reg0[k]) # NoBuf
          => k \in DOMAIN registry /\ BufOf(registry[k]) = BufOf(last.reg0[k])
    /\ \A k \in DOMAIN registry : \A j \in DOMAIN registry :
          (k # j /\ BufOf(registry[k]) # NoBuf) => BufOf(registry[k]) # BufOf(registry[j])
    /\ (last.op = "activate" /\ ~last.err)
       => LET v == last.v
              k == id(v)
              h == registry[k]["buf"]
          IN  /\ h # NoBuf
              /\ vim.cur = h
              /\ IF k \notin DOMAIN last.reg0 \/ last.reg0[k]["buf"] = NoBuf
                 THEN /\ vim.bufs[h].lines = split(views[v].text, NL)
                      /\ {"buf_new", "buf_set", "select"} \subseteq last.calls
                      /\ vim.sel[2] =
                            ClampPos(vim.mode, vim.bufs[h].lines,
                                     rowcol(views[v].text, views[v].sel[1][2]))
                 ELSE /\ "buf_new" \notin last.calls
                      /\ "buf_set" \notin last.calls

C5_Witness ==
    /\ last.op = "activate"
    /\ ~last.err
    /\ "buf_new" \notin last.calls
    /\ created[id(last.v)] = 1

\* C6: after press, sel_to_vim or activate returns, the surface's caret is
\* wide exactly when the engine's mode is neither an insert nor a visual
\* mode.
C6_CaretTracksMode ==
    (last.op \in Handlers /\ ~last.err /\ LastBridged)
    => views[last.v].caret = Wide

\* C7: get with create false on an id without entry returns None and adds
\* nothing; get on the surface an entry was made for returns that entry
\* and constructs nothing; get with exact true returns None when the
\* entry under the id was made for another surface.
C7_RegistryGet ==
    last.op = "get"
    => LET v      == last.v
           k      == id(v)
           create == last.arg[1]
           exact  == last.arg[2]
           fail   == last.arg[3]
           had    == k \in DOMAIN last.reg0
       IN  /\ (~had /\ ~create)
              => last.ret = Nothing /\ registry = last.reg0
           /\ (~had /\ create /\ ~fail)
              => /\ last.ret = Some(k)
                 /\ last.constructed = 1
                 /\ registry[k]["view"] = v
           /\ (had /\ last.reg0[k]["view"] = v)
              => /\ last.ret = Some(k)
                 /\ last.constructed = 0
                 /\ registry = last.reg0
           /\ (had /\ last.reg0[k]["view"] # v /\ exact)
              => last.ret = Nothing

C7_Witness ==
    /\ last.op = "get"
    /\ last.arg[2]
    /\ last.ret = Nothing
    /\ id(last.v) \in DOMAIN registry
    /\ registry[id(last.v)]["view"] # last.v

\* C8: a get with create true for a surface whose id has an entry made for
\* another surface ends with the registry holding a bridge of the new
\* surface.
C8_StaleEntryRebinds ==
    (last.op = "get" /\ last.arg[1] /\ ~last.arg[3])
    => /\ id(last.v) \in DOMAIN registry
       /\ registry[id(last.v)]["view"] = last.v

C10_FailedConstruction ==
    (last.op = "get" /\ last.arg[1] /\ id(last.v) \notin DOMAIN last.reg0)
    => IF last.arg[3]
       THEN /\ last.ret = Nothing
            /\ registry = last.reg0
            /\ last.constructed = 0
       ELSE /\ last.constructed = 1
            /\ id(last.v) \in DOMAIN registry

C10_Witness ==
    /\ last.op = "get"
    /\ last.arg[1]
    /\ last.arg[3]
    /\ last.ret = Nothing
    /\ id(last.v) \notin DOMAIN registry

\* ==================================================== the pure functions

\* ViewMeta.visual and keymap read no state of the bridge.  The calls below
\* apply them to inputs drawn in the initial state: last holds the call,
\* then the call and its result; nothing else changes.

\* The documents visual is applied to: x and newline, up to MaxText long.
DocTexts == UNION {[1..n -> Alphabet] : n \in 0..MaxText}

\* The positions the engine can report in a document: a row of it, and a
\* column on the row or just after its last character.
DocPos(text) ==
    {p \in (0..MaxText) \X (0..MaxText) :
        /\ p[1] < Len(split(text, NL))
        /\ p[2] <= Len(split(text, NL)[p[1] + 1])}

DocModes == {M_normal, M_char, M_line, M_block}

c_alt == <<97, 108, 116>>

\* The keys keymap is applied to: the names of the table, every single
\* character, every chord of ctrl and one character, and chords with a
\* name or with nothing as base, or with other modifiers.
KeyNames == {K_backspace, K_enter, K_escape, K_space, K_tab,
             K_up, K_down, K_right, K_left}

KeyInputs ==
    KeyNames
    \cup {<<c>> : c \in 0..(CharRange - 1)}
    \cup {Chord(c_ctrl, <<c>>) : c \in 0..(CharRange - 1)}
    \cup {Chord(c_ctrl, n) : n \in KeyNames \cup {<<>>}}
    \cup {Chord(c_alt, n) : n \in KeyNames \cup {L_x}}
    \cup {Chord(Chord(c_ctrl, c_alt), n) : n \in KeyNames \cup {L_x}}

Idle ==
    /\ views = [v \in Views |-> NoView]
    /\ registry = [x \in {} |-> BlankDict]
    /\ vim = [bufs |-> [h \in Handles |-> [st |-> "free", lines |-> <<<<>>>>]],
              cur |-> NoBuf, mode |-> M_normal, sel |-> <<<<0, 0>>, <<0, 0>>>>]
    /\ deferred = <<>>
    /\ pushes = [k \in Ids |-> 0]
    /\ created = [k \in Ids |-> 0]
    /\ steps = 0
    /\ panel = NoPanels

InitFn ==
    /\ Idle
    /\ \/ \E text \in DocTexts : \E mode \in DocModes :
             \E a \in DocPos(text) : \E b \in DocPos(text) :
                last = [op |-> "input", fn |-> "visual",
                        arg |-> <<text, mode, a, b>>, ret |-> Nothing]
       \/ \E key \in KeyInputs :
             last = [op |-> "input", fn |-> "keymap",
                     arg |-> <<key>>, ret |-> Nothing]

CallVisual ==
    /\ last.op = "input" /\ last.fn = "visual"
    /\ last' = [last EXCEPT !.op = "visual",
                            !.ret = visual(last.arg[1], last.arg[2],
                                           last.arg[3], last.arg[4])]
    /\ UNCHANGED <<views, registry, vim, deferred, pushes, created, steps, panel>>

CallKeymap ==
    /\ last.op = "input" /\ last.fn = "keymap"
    /\ last' = [last EXCEPT !.op = "keymap", !.ret = keymap(last.arg[1])]
    /\ UNCHANGED <<views, registry, vim, deferred, pushes, created, steps, panel>>

NextFn == CallVisual \/ CallKeymap

SpecFn == InitFn /\ [][NextFn]_vars

\* The part of the document a region covers, whichever way it points.
Span(r) == <<Min(r[1], r[2]), Max(r[1], r[2])>>

Fives == <<120, 120, 120, 120, 120>>

\* C11: in the mode v one range is emitted: with a and b the offsets of
\* anchor and cursor, (a+1, b) when a > b and (a, b+1) otherwise; anchor
\* (0,0) and cursor (0,2) give (0,3), and swapping anchor and cursor leaves
\* the span covered as it was.
C11_CharMode ==
    (last.op = "visual" /\ last.arg[2] = M_char)
    => LET text == last.arg[1]
           a == text_point(text, last.arg[3][1], last.arg[3][2])
           b == text_point(text, last.arg[4][1], last.arg[4][2])
       IN  /\ last.ret = <<IF a > b THEN <<a + 1, b>> ELSE <<a, b + 1>>>>
           /\ Span(last.ret[1])
                 = Span(visual(text, M_char, last.arg[4], last.arg[3])[1])
           /\ (text = Fives /\ last.arg[3] = <<0, 0>> /\ last.arg[4] = <<0, 2>>)
              => last.ret = <<<<0, 3>>>>
           /\ (text = Fives /\ last.arg[3] = <<0, 2>> /\ last.arg[4] = <<0, 0>>)
              => Span(last.ret[1]) = <<0, 3>>

C11_Witness ==
    /\ last.op = "visual"
    /\ last.arg = <<Fives, M_char, <<0, 2>>, <<0, 0>>>>
    /\ last.ret = <<<<3, 0>>>>

\* The offsets at which row r of a document starts and ends, counted on
\* the text itself.
LineStartOf(text, r) ==
    CHOOSE p \in 0..Len(text) :
        /\ Cardinality({i \in 1..p : text[i] = NL}) = r
        /\ (p = 0 \/ text[p] = NL)

LineEndOf(text, r) ==
    CHOOSE p \in LineStartOf(text, r)..Len(text) :
        /\ \A i \in (LineStartOf(text, r) + 1)..p : text[i] # NL
        /\ (p = Len(text) \/ text[p + 1] = NL)

\* C12: in the mode V one range is emitted, and whatever the direction it
\* runs between the start of the upper row's line and the end of the lower
\* row's line, also when anchor and cursor are on one row.
C12_LineMode ==
    (last.op = "visual" /\ last.arg[2] = M_line)
    => LET text == last.arg[1]
           top  == Min(last.arg[3][1], last.arg[4][1])
           bot  == Max(last.arg[3][1], last.arg[4][1])
       IN  /\ Len(last.ret) = 1
           /\ Span(last.ret[1]) = <<LineStartOf(text, top), LineEndOf(text, bot)>>

C12_Witness ==
    /\ last.op = "visual"
    /\ last.arg[2] = M_line
    /\ last.arg[3][1] = 2
    /\ last.arg[4][1] = 0
    /\ Len(last.arg[1]) = MaxText
    /\ last.ret[1][1] > last.ret[1][2]

\* The rows top..bot whose end column is at least left, in order.
RECURSIVE RowsFrom(_, _, _, _)
RowsFrom(text, r, bot, left) ==
    IF r > bot THEN <<>>
    ELSE (IF LineEndOf(text, r) - LineStartOf(text, r) >= left
          THEN <<r>> ELSE <<>>) \o RowsFrom(text, r + 1, bot, left)

\* C13: in block mode, with left the smaller column, right the larger plus
\* one, there is one range, in row order, for each row between the rows of
\* anchor and cursor whose end column is at least left: from the row's
\* offset of left to its offset of min(right, end column); each range lies
\* inside its row.
C13_BlockMode ==
    (last.op = "visual" /\ last.arg[2] = M_block)
    => LET text  == last.arg[1]
           top   == Min(last.arg[3][1], last.arg[4][1])
           bot   == Max(last.arg[3][1], last.arg[4][1])
           left  == Min(last.arg[3][2], last.arg[4][2])
           right == Max(last.arg[3][2], last.arg[4][2]) + 1
           rows  == RowsFrom(text, top, bot, left)
       IN  /\ Len(last.ret) = Len(rows)
           /\ \A i \in 1..Len(rows) :
                 LET st == LineStartOf(text, rows[i])
                     en == LineEndOf(text, rows[i])
                 IN  /\ last.ret[i] = <<st + left, st + Min(right, en - st)>>
                     /\ st <= last.ret[i][1]
                     /\ last.ret[i][2] <= en

\* A block over three rows: one too short for its left edge, one shorter
\* than its right edge.
C13_Witness ==
    /\ last.op = "visual"
    /\ last.arg[2] = M_block
    /\ last.arg[1] = <<120, NL, NL, 120, 120>>
    /\ {last.arg[3], last.arg[4]} = {<<0, 1>>, <<2, 2>>}
    /\ last.ret = <<<<1, 1>>, <<4, 5>>>>

\* C14: keymap returns a string for every key, chords of ctrl with a name
\* or with nothing as base included; it never raises.
C14_KeymapTotal ==
    last.op = "keymap" => last.ret # TypeError

\* The literal of each name in the table.
Literal(name) ==
    CASE name = K_backspace -> <<8>>
      [] name = K_enter     -> <<10>>
      [] name = K_escape    -> <<27>>
      [] name = K_space     -> <<32>>
      [] name = K_tab       -> <<9>>
      [] name = K_up        -> <<27, 91, 65>>
      [] name = K_down      -> <<27, 91, 66>>
      [] name = K_right     -> <<27, 91, 67>>
      [] name = K_left      -> <<27, 91, 68>>

\* C15: every name of the table gives its literal; ctrl+c for one character
\* c with code in [63, 96) gives the character (code - 64) mod 128, so
\* ctrl+? gives 127 and ctrl+@ gives 0; "+" gives "+"; any other single
\* character gives itself.
C15_KeymapResults ==
    last.op = "keymap"
    => LET key == last.arg[1]
       IN  /\ key \in KeyNames => last.ret = Literal(key)
           /\ \A c \in 63..95 :
                 key = c_ctrl \o <<43, c>> => last.ret = <<(c + 64) % 128>>
           /\ key = c_ctrl \o <<43, 63>> => last.ret = <<127>>
           /\ key = c_ctrl \o <<43, 64>> => last.ret = <<0>>
           /\ key = <<43>> => last.ret = <<43>>
           /\ Len(key) = 1 => last.ret = key

C15_Witness ==
    /\ last.op = "keymap"
    /\ last.arg[1] = c_ctrl \o <<43, 63>>
    /\ last.ret = <<127>>

\* ========================================================== ActualPanel

\* One ActualPanel per bridge, built on an object that has the attributes
\* vim and view.  p is the state of the panels: ref[k] is self.panel of the
\* ActualPanel of bridge k (0 for None, else a widget of the host), widgets
\* the input widgets the host has opened, each with its owner, whether it
\* is still open, and its text.

\* The characters the engine asks line input with: ":" and "/".
Prompts == {58, 47}

\* window.show_input_panel: the host opens a widget.  Whether a widget
\* already shown is taken down by that is the host's choice (replace).
show_input_panel(p, k, char, replace) ==
    [p EXCEPT !.widgets =
        Append([w \in DOMAIN p.widgets |->
                   IF replace THEN [p.widgets[w] EXCEPT !.st = "closed"]
                   ELSE p.widgets[w]],
               [owner |-> k, st |-> "open", text |-> <<char>>, proxy |-> FALSE])]

\* ActualPanel.show: self.panel is the widget just opened, whose settings
\* are set; the last statement reads ActualVim.views, an attribute the class
\* does not have, so show leaves by AttributeError (err).
ActualPanel_show(p, k, char, replace) ==
    LET q == show_input_panel(p, k, char, replace)
        w == Len(q.widgets)
    IN  [state |-> [q EXCEPT !.ref[k] = w, !.widgets[w].proxy = TRUE],
         err |-> TRUE]

\* ActualPanel.close: if self.panel: self.panel.close()
ActualPanel_close(p, k) ==
    [state |-> IF p.ref[k] # 0
               THEN [p EXCEPT !.widgets[p.ref[k]].st = "closed"]
               ELSE p,
     err |-> FALSE]

\* on_done and on_cancel: a key goes to the engine and the engine's panel
\* attribute is cleared; self.panel stays as it is.
ActualPanel_on_done(p, k) == [state |-> p, err |-> FALSE, key |-> K_enter]

ActualPanel_on_cancel(p, k) == [state |-> p, err |-> FALSE, key |-> K_escape]

InitPanel ==
    /\ Idle
    /\ last = [op |-> "init", v |-> 0, err |-> FALSE, arg |-> <<>>]

PanelCommit(r, op, k, arg) ==
    /\ panel' = r.state
    /\ last' = [op |-> op, v |-> k, err |-> r.err, arg |-> arg]
    /\ UNCHANGED <<views, registry, vim, deferred, pushes, created, steps>>

\* The engine asks for line input: show(char).
PanelShow(k, char, replace) ==
    /\ Len(panel.widgets) < MaxPanels
    /\ PanelCommit(ActualPanel_show(panel, k, char, replace), "show", k,
                   <<char, replace>>)

PanelClose(k) ==
    PanelCommit(ActualPanel_close(panel, k), "panel_close", k, <<>>)

\* The user confirms or cancels an open widget: the host takes it down and
\* calls the callback it was opened with.
PanelDone(w) ==
    /\ panel.widgets[w].st = "open"
    /\ LET k == panel.widgets[w].owner
           r == ActualPanel_on_done([panel EXCEPT !.widgets[w].st = "closed"], k)
       IN  PanelCommit(r, "on_done", k, <<r.key>>)

PanelCancel(w) ==
    /\ panel.widgets[w].st = "open"
    /\ LET k == panel.widgets[w].owner
           r == ActualPanel_on_cancel([panel EXCEPT !.widgets[w].st = "closed"], k)
       IN  PanelCommit(r, "on_cancel", k, <<r.key>>)

NextPanel ==
    \/ \E k \in Ids, char \in Prompts, replace \in BOOLEAN : PanelShow(k, char, replace)
    \/ \E k \in Ids : PanelClose(k)
    \/ \E w \in DOMAIN panel.widgets : PanelDone(w)
    \/ \E w \in DOMAIN panel.widgets : PanelCancel(w)

SpecPanel == InitPanel /\ [][NextPanel]_vars

\* The widgets of bridge k that are open.
OpenPanels(k) ==
    {w \in DOMAIN panel.widgets :
        panel.widgets[w].owner = k /\ panel.widgets[w].st = "open"}

\* C16: at most one input widget is open per bridge at any time, over any
\* sequence of show, confirm, cancel and close: a show while one is open
\* closes it.
C16_OnePanel ==
    \A k \in Ids : Cardinality(OpenPanels(k)) <= 1

\* =================================================== closing and failing

\* C17: close on a bridge that has a buffer releases it through the engine,
\* close on a bridge without one calls nothing; once a surface is closed
\* the registry no longer holds its bridge, and no bridge leaves the
\* registry while its buffer is unreleased.
C17_CloseDiscards ==
    /\ last.op = "close"
       => LET k == id(last.v)
          IN  /\ (k \in DOMAIN last.reg0 /\ last.reg0[k]["view"] = last.v)
                 => IF BufOf(last.reg0[k]) # NoBuf
                    THEN /\ "buf_close" \in last.calls
                         /\ vim.bufs[BufOf(last.reg0[k])].st = "closed"
                    ELSE last.calls = {}
              /\ k \in DOMAIN registry => registry[k]["view"] # last.v
    /\ \A k \in DOMAIN last.reg0 \ DOMAIN registry :
          BufOf(last.reg0[k]) # NoBuf
          => vim.bufs[BufOf(last.reg0[k])].st = "closed"

\* C18: with the calls on several surfaces interleaved, every key sent to
\* the engine, every selection pushed to it and every selection read from
\* it on behalf of a bridge happens while the engine is focused on that
\* bridge's buffer.
C18_OwnBufferFocused ==
    last.op \in Handlers => "unfocused" \notin last.calls

\* A key is sent for a surface while the engine was left focused on the
\* buffer of another.
C18_Witness ==
    /\ last.op = "press"
    /\ ~last.err
    /\ "press" \in last.calls
    /\ id(last.v) \in DOMAIN last.reg0
    /\ BufOf(last.reg0[id(last.v)]) # NoBuf
    /\ last.cur0 # NoBuf
    /\ last.cur0 # BufOf(last.reg0[id(last.v)])
    /\ vim.cur = BufOf(registry[id(last.v)])

\* The bridge's methods called in any order.  Surface 2 is an input widget
\* tagged actual_proxy, and close() is called on the bridge of a surface
\* that stays open as well as when a surface closes.
InitCalls ==
    /\ \E t \in Texts :
          views = [v \in Views |->
                     IF id(v) = v
                     THEN [NoView EXCEPT !.st = "live",
                                         !.text = IF v = 1 THEN t ELSE <<>>,
                                         !.proxy = (v = 2)]
                     ELSE NoView]
    /\ registry = [x \in {} |-> BlankDict]
    /\ vim = [bufs |-> [h \in Handles |-> [st |-> "free", lines |-> <<<<>>>>]],
              cur |-> NoBuf, mode |-> M_normal, sel |-> <<<<0, 0>>, <<0, 0>>>>]
    /\ deferred = <<>>
    /\ pushes = [k \in Ids |-> 0]
    /\ created = [k \in Ids |-> 0]
    /\ steps = 0
    /\ panel = NoPanels
    /\ last = [op |-> "init", v |-> 0, arg |-> <<>>, err |-> FALSE,
               calls |-> {}, ret |-> Nothing, writes |-> 0, constructed |-> 0,
               reg0 |-> registry, cur0 |-> NoBuf, text0 |-> <<>>]

\* ActualVim.get(view, create=False).close() on a surface that stays open.
CloseCall(v) ==
    /\ Live(v)
    /\ get(Start, v, FALSE, TRUE, FALSE).ret # Nothing
    /\ Commit(close(get(Start, v, FALSE, TRUE, FALSE), id(v)), "close_call", v, <<>>)

NextCalls ==
    \/ Next
    \/ \E v \in Views : CloseCall(v)

SpecCalls == InitCalls /\ [][NextCalls]_vars

\* C19: every bridge the registry hands out, one made for a surface tagged
\* as proxy included, has its buf attribute (None or a handle), and
\* activate, sel_to_vim, press and close return without raising.
C19_NoFailure ==
    /\ \A k \in DOMAIN registry : "buf" \in DOMAIN registry[k]
    /\ last.op \in Handlers \cup {"close", "close_call"} => ~last.err

\* C20: over any sequence of activate, press, sel_to_vim and close on a
\* bridge its buffer is released at most once, and once released its
\* handle is named in no further call to the engine.
C20_ReleasedOnce ==
    last.op \in Handlers \cup {"close", "close_call"}
    => "released" \notin last.calls

====
